---------------------------- MODULE Spec2Model ----------------------------
(***************************************************************************)
(* godax: the authenticated request pipeline of the REST client.           *)
(*                                                                         *)
(* One Client value (godax.go:11-18) is shared by the callers in Procs.    *)
(* A caller enters through an exported method of godax.go (ListAccounts,   *)
(* GetAccount, GetAccountHistory), which captures a timestamp, signs and   *)
(* delegates to the unexported method of accounts.go, or enters the        *)
(* unexported method directly (in-package use).  The unexported methods    *)
(* declare no method/path/timestamp/sig parameters (accounts.go:101, 129,  *)
(* 157): they build the request, capture their own timestamp and sign      *)
(* again, so what the exported method computed never reaches the request.  *)
(*                                                                         *)
(* generateSignature, setHeaders and the HTTPClient interface are used by  *)
(* the sources but defined elsewhere in the repository; they are modelled  *)
(* from sections 4.1, 4.2 and 6 of the specification.                      *)
(***************************************************************************)
EXTENDS Integers, Sequences, FiniteSets, TLC

\* ------------------------------------------------------------------ bounds
\* Unix second shown by the clock in the initial state.
StartClock == 9
\* How many times the clock second may change during a run.
MaxTicks == 1
\* Resource calls started during a run, over all callers.
MaxCalls == 2
\* Pages of the ledger chain served by the transport fake.
NumPages == 2
\* Tokens of the rate-limit budget that the documentation grants per window.
BudgetTokens == 1

\* Concurrent callers of the one client instance.
Procs == {"a", "b"}

\* --------------------------------------------------------------- constants
MethodGet == "GET"
\* Error values: nil, and the errors http.NewRequest, the signer, the transport
\* and the JSON decoder produce.  status is the HTTP status an error carries.
NoErr == [kind |-> "nil", status |-> 0]
ErrNewRequest == [kind |-> "net/url: invalid control character in URL", status |-> 0]
ErrSecret == [kind |-> "illegal base64 data", status |-> 0]
ErrTransport == [kind |-> "transport error", status |-> 0]
ErrSyntax == [kind |-> "json: syntax error", status |-> 0]
ErrUnmarshalType == [kind |-> "json: cannot unmarshal", status |-> 0]

Ops == {"ListAccounts", "GetAccount", "GetAccountHistory"}
Vias == {"exported", "unexported"}
\* Account ids a caller may pass: a plain one, one holding a '#', and "ctl",
\* which stands for one holding a control character.
AccountIDs == {"abc123", "a#b", "ctl"}
Secrets == {"c2VjcmV0", "not*base64"}
Statuses == {200, 404}

VARIABLES client, clock, pc, call, pub, timestamp, req, res, closes, doCount,
          ret, dispatched, ncalls

vars == <<client, clock, pc, call, pub, timestamp, req, res, closes, doCount,
          ret, dispatched, ncalls>>

\* ----------------------------------------------------------- pure helpers
RECURSIVE FormatInt(_)
\* strconv.FormatInt(n, 10) for n >= 0: the decimal digits, most significant first.
FormatInt(n) == IF n < 10 THEN <<n>> ELSE Append(FormatInt(n \div 10), n % 10)

\* time.Now().Unix() rendered by strconv.FormatInt.
unixTime == FormatInt(clock)

\* The path each method assembles.
Path(op, id) ==
  CASE op = "ListAccounts" -> <<"accounts">>
    [] op = "GetAccount" -> <<"accounts", id>>
    [] op = "GetAccountHistory" -> <<"accounts", id, "ledger">>

\* base64 decoding of the secret succeeds.
SecretDecodes(secret) == secret = "c2VjcmV0"

\* The signer: HMAC keyed by the decoded secret over the message
\* timestamp || method || path || body, kept as the tuple of its inputs.
generateSignature(ts, path, method, body) ==
  IF SecretDecodes(client.secret)
  THEN [sig |-> <<client.secret, ts, method, path, body>>, err |-> NoErr]
  ELSE [sig |-> <<>>, err |-> ErrSecret]

NoSig == <<>>
NoTimestamp == <<>>
NoPub == [timestamp |-> NoTimestamp, sig |-> NoSig]
NoCall == [op |-> "none", via |-> "none", id |-> "none"]
NoHeaders == [key |-> "", sign |-> NoSig, timestamp |-> NoTimestamp, passphrase |-> ""]
NoReq == [method |-> "", base |-> "", path |-> <<>>, body |-> "", cursor |-> 0,
          headers |-> NoHeaders]

\* The part of a path segment before a '#'.
BeforeFragment(seg) == IF seg = "a#b" THEN "a" ELSE seg

RECURSIVE ParsePath(_)
\* url.Parse on the target: what follows the first '#' is the fragment, which is
\* no part of the URL path and is not sent.
ParsePath(path) ==
  IF path = <<>> THEN <<>>
  ELSE IF BeforeFragment(Head(path)) # Head(path)
       THEN <<BeforeFragment(Head(path))>>
       ELSE <<Head(path)>> \o ParsePath(Tail(path))

\* http.NewRequest parses the URL; a control character makes the parse fail.
URLParses(op, id) == ~(id = "ctl" /\ op # "ListAccounts")

\* The request http.NewRequest returns for method and base + path, with no body.
NewRequest(method, base, path) ==
  [method |-> method, base |-> base, path |-> ParsePath(path), body |-> "",
   cursor |-> 0,
   headers |-> NoHeaders]

\* The four authentication headers.
setHeaders(r, ts, sig) ==
  [r EXCEPT !.headers = [key |-> client.key, sign |-> sig, timestamp |-> ts,
                         passphrase |-> client.passphrase]]


\* ------------------------------------------------------- bodies and decode
\* A response body: not JSON at all ("garbage"), a JSON object, or a JSON array.
\* obj is the account an object describes (0: an object with none of the target's
\* fields, such as an error object); items are array elements, Bad being an
\* element of the wrong JSON type.
Bad == -1
NoBody == [kind |-> "none", items |-> <<>>, obj |-> 0]
Garbage == [kind |-> "garbage", items |-> <<>>, obj |-> 0]
ObjectBody(x) == [kind |-> "object", items |-> <<>>, obj |-> x]
ListBody(s) == [kind |-> "list", items |-> s, obj |-> 0]

\* Zero value of the result each method declares before decoding, and the empty
\* result of its error returns ([]T{} or Account{}).
Empty(op) == IF op = "GetAccount" THEN <<0>> ELSE <<>>

\* json.NewDecoder(body).Decode(&target): a syntax error leaves the target
\* untouched; a value of the wrong JSON type is skipped, the rest is filled in and
\* the type error is reported.
JSONDecode(op, body) ==
  IF body.kind = "garbage"
  THEN [val |-> Empty(op), err |-> ErrSyntax]
  ELSE IF op = "GetAccount"
  THEN IF body.kind = "object"
       THEN [val |-> <<body.obj>>, err |-> NoErr]
       ELSE [val |-> Empty(op), err |-> ErrUnmarshalType]
  ELSE IF body.kind = "list"
       THEN [val |-> [i \in 1..Len(body.items) |->
                        IF body.items[i] = Bad THEN 0 ELSE body.items[i]],
             err |-> IF \E i \in 1..Len(body.items) : body.items[i] = Bad
                     THEN ErrUnmarshalType ELSE NoErr]
       ELSE [val |-> Empty(op), err |-> ErrUnmarshalType]

\* ------------------------------------------------------- transport (fake)
\* The ledger as the upstream serves it: page i, and the `after` cursor its
\* response carries (0: none, the last page).
Page(i) == <<2 * i - 1, 2 * i>>
After(i) == IF i < NumPages THEN i ELSE 0

RECURSIVE PagesFrom(_)
PagesFrom(i) == IF i > NumPages THEN <<>> ELSE Page(i) \o PagesFrom(i + 1)
AllItems == PagesFrom(1)

NoRes == [status |-> 0, body |-> NoBody, after |-> 0]

\* What HTTPClient.Do may return for request r when it answers: with status 200
\* the page the cursor asks for, an account object, an array with an element of
\* the wrong type, or a body that is not JSON; with status 404 an error object
\* or (a fake is free to) the page.
Responses(r) ==
  { [status |-> 200, body |-> b, after |-> 0] :
      b \in {Garbage, ObjectBody(1), ListBody(<<1, Bad>>)} }
  \cup
  { [status |-> 404, body |-> ObjectBody(0), after |-> 0] }
  \cup
  { [status |-> st, body |-> ListBody(Page(r.cursor + 1)),
     after |-> After(r.cursor + 1)] : st \in Statuses }

NoRet == [val |-> <<>>, err |-> NoErr, set |-> FALSE]
Returned(v, e) == [val |-> v, err |-> e, set |-> TRUE]

\* ------------------------------------------------------------------ state
TypeOK ==
  /\ client \in [baseRestURL : {"https://api.pro.coinbase.com"}, key : {"key"},
                 secret : Secrets, passphrase : {"passphrase"}]
  /\ clock \in StartClock..(StartClock + MaxTicks)
  /\ pc \in [Procs -> {"idle", "exported", "build", "do", "decode", "done"}]
  /\ doCount \in [Procs -> Nat]
  /\ closes \in [Procs -> Nat]
  /\ ncalls \in 0..MaxCalls
  /\ dispatched \in Nat

\* The client after construction: credentials and base URL are set once.
Init ==
  /\ client \in [baseRestURL : {"https://api.pro.coinbase.com"}, key : {"key"},
                 secret : Secrets, passphrase : {"passphrase"}]
  /\ clock = StartClock
  /\ pc = [p \in Procs |-> "idle"]
  /\ call = [p \in Procs |-> NoCall]
  /\ pub = [p \in Procs |-> NoPub]
  /\ timestamp = [p \in Procs |-> NoTimestamp]
  /\ req = [p \in Procs |-> NoReq]
  /\ res = [p \in Procs |-> NoRes]
  /\ closes = [p \in Procs |-> 0]
  /\ doCount = [p \in Procs |-> 0]
  /\ ret = [p \in Procs |-> NoRet]
  /\ dispatched = 0
  /\ ncalls = 0

\* ---------------------------------------------------------------- actions
\* The clock reaches the next second.  A budget window, had the client one,
\* would be refilled here; dispatched counts the transport calls of the window.
Tick ==
  /\ clock < StartClock + MaxTicks
  /\ clock' = clock + 1
  /\ dispatched' = 0
  /\ UNCHANGED <<client, pc, call, pub, timestamp, req, res, closes, doCount,
                 ret, ncalls>>

\* A caller starts a resource call.
Call(p, op, via, id) ==
  /\ pc[p] = "idle"
  /\ ncalls < MaxCalls
  /\ ncalls' = ncalls + 1
  /\ call' = [call EXCEPT ![p] = [op |-> op, via |-> via,
                                  id |-> IF op = "ListAccounts" THEN "none" ELSE id]]
  /\ pc' = [pc EXCEPT ![p] = IF via = "exported" THEN "exported" ELSE "build"]
  /\ UNCHANGED <<client, clock, pub, timestamp, req, res, closes, doCount, ret,
                 dispatched>>

\* ListAccounts / GetAccount / GetAccountHistory: timestamp, signature, delegate.
Exported(p) ==
  /\ pc[p] = "exported"
  /\ LET ts == unixTime
         g == generateSignature(ts, Path(call[p].op, call[p].id), MethodGet, "")
     IN IF g.err # NoErr
        THEN /\ ret' = [ret EXCEPT ![p] = Returned(Empty(call[p].op), g.err)]
             /\ pc' = [pc EXCEPT ![p] = "done"]
             /\ pub' = pub
        ELSE /\ pub' = [pub EXCEPT ![p] = [timestamp |-> ts, sig |-> g.sig]]
             /\ pc' = [pc EXCEPT ![p] = "build"]
             /\ ret' = ret
  /\ UNCHANGED <<client, clock, call, timestamp, req, res, closes, doCount,
                 dispatched, ncalls>>

\* A variant that goes on to the transport whatever the signer returned.
AfterSignIgnoringErr(err) == "do"

\* After generateSignature: return on error, otherwise go on to send.
AfterSign(err) == IF err # NoErr THEN "done" ELSE "do"

\* listAccounts / getAccount / getAccountHistory up to setHeaders: build the
\* request, capture the timestamp, sign, set the headers.  The method takes
\* nothing from the exported method: that one's timestamp and signature end here.
Build(p) ==
  /\ pc[p] = "build"
  /\ LET op == call[p].op
         path == Path(op, call[p].id)
     IN IF ~URLParses(op, call[p].id)
        THEN /\ ret' = [ret EXCEPT ![p] = Returned(Empty(op), ErrNewRequest)]
             /\ pc' = [pc EXCEPT ![p] = "done"]
             /\ UNCHANGED <<timestamp, req>>
        ELSE LET r == NewRequest(MethodGet, client.baseRestURL, path)
                 ts == unixTime
                 g == generateSignature(ts, path, MethodGet, "")
             IN /\ timestamp' = [timestamp EXCEPT ![p] =
                                    IF g.err # NoErr THEN NoTimestamp ELSE ts]
                /\ pc' = [pc EXCEPT ![p] = AfterSign(g.err)]
                /\ IF g.err # NoErr
                   THEN /\ ret' = [ret EXCEPT ![p] = Returned(Empty(op), g.err)]
                        /\ req' = req
                   ELSE /\ ret' = ret
                        /\ req' = [req EXCEPT ![p] =
                             setHeaders(r, ts, g.sig)]
  /\ pub' = [pub EXCEPT ![p] = NoPub]
  /\ UNCHANGED <<client, clock, call, res, closes, doCount, dispatched, ncalls>>

\* A variant that tries the transport again after a transport error.
RetryAfterDoError == "do"

\* After a transport error the method returns.
AfterDoError == "done"

\* A variant that reports success after a transport error.
DoFailedSilently(op, err) == Returned(Empty(op), NoErr)

\* What the method returns when Do fails: the empty result and the error.
DoFailed(op, err) == Returned(Empty(op), err)

\* c.httpClient.Do(req): the transport fails, or answers.  dispatched counts the
\* transport calls of the current window.
Do(p) ==
  /\ pc[p] = "do"
  /\ doCount' = [doCount EXCEPT ![p] = @ + 1]
  /\ dispatched' = dispatched + 1
  /\ \/ /\ ret' = [ret EXCEPT ![p] = DoFailed(call[p].op, ErrTransport)]
        /\ pc' = [pc EXCEPT ![p] = AfterDoError]
        /\ req' = [req EXCEPT ![p] = NoReq]
        /\ timestamp' = [timestamp EXCEPT ![p] = NoTimestamp]
        /\ res' = res
     \/ \E out \in Responses(req[p]) :
          /\ res' = [res EXCEPT ![p] = out]
          /\ pc' = [pc EXCEPT ![p] = "decode"]
          /\ UNCHANGED <<ret, req, timestamp>>
  /\ UNCHANGED <<client, clock, call, pub, closes, ncalls>>

\* A variant without the deferred close.
NoDeferredClose(n) == n

\* defer res.Body.Close(): runs once when the method returns.
DeferredClose(n) == n + 1

\* Decode the body, drop Decode's error, return the value with a nil error.  The
\* method's request and timestamp go out of scope as it returns.
Decode(p) ==
  /\ pc[p] = "decode"
  /\ ret' = [ret EXCEPT ![p] = Returned(JSONDecode(call[p].op, res[p].body).val, NoErr)]
  /\ closes' = [closes EXCEPT ![p] = DeferredClose(@)]
  /\ pc' = [pc EXCEPT ![p] = "done"]
  /\ req' = [req EXCEPT ![p] = NoReq]
  /\ timestamp' = [timestamp EXCEPT ![p] = NoTimestamp]
  /\ UNCHANGED <<client, clock, call, pub, res, doCount, dispatched, ncalls>>

\* The caller has the result; its next call starts afresh.
Return(p) ==
  /\ pc[p] = "done"
  /\ pc' = [pc EXCEPT ![p] = "idle"]
  /\ call' = [call EXCEPT ![p] = NoCall]
  /\ pub' = [pub EXCEPT ![p] = NoPub]
  /\ res' = [res EXCEPT ![p] = NoRes]
  /\ closes' = [closes EXCEPT ![p] = 0]
  /\ doCount' = [doCount EXCEPT ![p] = 0]
  /\ ret' = [ret EXCEPT ![p] = NoRet]
  /\ UNCHANGED <<client, clock, timestamp, req, dispatched, ncalls>>

Next ==
  \/ Tick
  \/ \E p \in Procs, op \in Ops, via \in Vias, id \in AccountIDs : Call(p, op, via, id)
  \/ \E p \in Procs : Exported(p)
  \/ \E p \in Procs : Build(p)
  \/ \E p \in Procs : Do(p)
  \/ \E p \in Procs : Decode(p)
  \/ \E p \in Procs : Return(p)

Spec == Init /\ [][Next]_vars

\* ------------------------------------------------------------ properties
\* The errors the pipeline is described as returning.
APIError(st) == [kind |-> "APIError", status |-> st]
DecodeError == [kind |-> "DecodeError", status |-> 0]
RateLimited == [kind |-> "RateLimited", status |-> 0]

Success(st) == st \in 200..299
\* The transport has answered caller p's current call.
Answered(p) == res[p] # NoRes
\* The request of caller p's current call has been handed to the transport.
Sent(p) == doCount[p] > 0

\* C1: a response with a non-2xx status makes the call return an APIError
\* carrying that status, never a result with a nil error.
C1_NonSuccessStatusIsAPIError ==
  \A p \in Procs :
    (pc[p] = "done" /\ Answered(p) /\ ~Success(res[p].status))
      => ret[p].err = APIError(res[p].status)

\* C2: a 2xx response whose body does not decode into the result shape makes the
\* call return a DecodeError, never a result with a nil error.
C2_DecodeFailureIsDecodeError ==
  \A p \in Procs :
    (pc[p] = "done" /\ Answered(p) /\ Success(res[p].status)
       /\ JSONDecode(call[p].op, res[p].body).err # NoErr)
      => ret[p].err = DecodeError

\* C3: every request handed to the transport carries all four authentication
\* headers, and its signature header is the signer's output for exactly the
\* request's own timestamp header, method, path and body, also when the exported
\* method captured a timestamp and a signature of its own before delegating.
C3_SignedAsSent ==
  \A p \in Procs :
    pc[p] \in {"do", "decode"} =>
      LET r == req[p]
          g == generateSignature(r.headers.timestamp, r.path, r.method, r.body)
      IN /\ g.err = NoErr
         /\ r.headers.sign = g.sig
         /\ r.headers.timestamp = timestamp[p]
         /\ r.headers.timestamp # NoTimestamp
         /\ r.headers.key = client.key
         /\ r.headers.passphrase = client.passphrase
         /\ r.method = MethodGet
         /\ r.base = client.baseRestURL
         /\ r.path = Path(call[p].op, call[p].id)

\* The part of C3 that does not involve the path: the timestamp header of a
\* request is the timestamp the unexported method captured, once, and the signer
\* was given that same timestamp, GET and the empty body.
TimestampSignedAsSent ==
  \A p \in Procs :
    pc[p] \in {"do", "decode"} =>
      /\ req[p].headers.timestamp = timestamp[p]
      /\ req[p].headers.sign[2] = timestamp[p]
      /\ req[p].headers.sign[3] = req[p].method
      /\ req[p].headers.sign[5] = req[p].body

\* C4: a call that stands at the transport call when the budget of the window
\* has no token left does not invoke the transport, and what it returns is
\* RateLimited.
C4_RateLimitedWithoutTransport ==
  [][\A p \in Procs :
       (pc[p] = "do" /\ dispatched >= BudgetTokens)
         => /\ doCount'[p] = doCount[p]
            /\ pc'[p] = "done" => ret'[p].err = RateLimited]_vars

\* C5: when the transport serves the ledger chain, the call returns the items of
\* all its pages, concatenated in upstream order.
C5_LedgerIsAllPages ==
  \A p \in Procs :
    (pc[p] = "done" /\ call[p].op = "GetAccountHistory" /\ Answered(p)
       /\ res[p].status = 200 /\ res[p].body = ListBody(Page(1))
       /\ res[p].after = After(1))
      => (ret[p].err = NoErr /\ ret[p].val = AllItems)

\* C6: a received response body is closed exactly once by the time the call
\* returns, whatever the status and whether or not the body decoded; it is never
\* closed twice, and nothing is closed when no response was received.
C6_BodyClosedOnce ==
  \A p \in Procs :
    /\ closes[p] <= 1
    /\ pc[p] = "done" => closes[p] = (IF Answered(p) THEN 1 ELSE 0)
    /\ ~Answered(p) => closes[p] = 0

\* C6 witness: a ListAccounts call returned after a 404 response whose body, an
\* error object, does not decode into a list; the body was closed once.
C6_Witness ==
  \E p \in Procs :
    /\ pc[p] = "done"
    /\ call[p].op = "ListAccounts"
    /\ res[p].status = 404
    /\ JSONDecode(call[p].op, res[p].body).err # NoErr
    /\ closes[p] = 1

\* C7: one invocation of ListAccounts or GetAccount invokes the transport at most
\* once, whatever the outcome.
C7_NoRetry ==
  \A p \in Procs :
    call[p].op \in {"ListAccounts", "GetAccount"} => doCount[p] <= 1

\* C7 witness: a ListAccounts call returned the transport's error after its one
\* transport invocation.
C7_Witness ==
  \E p \in Procs :
    /\ pc[p] = "done"
    /\ call[p].op = "ListAccounts"
    /\ ret[p].err = ErrTransport
    /\ doCount[p] = 1

\* C8: the budget's token count is what a serial order of the window's
\* dispatches leaves, one token consumed per transport call under exclusive
\* access: it never falls below zero.
C8_BudgetAsSerial ==
  BudgetTokens - dispatched >= 0

\* The error a call returns when building or signing fails, in the order the
\* entry point meets the two failures.
BuildFailure(p) ==
  IF call[p].via = "exported"
  THEN IF ~SecretDecodes(client.secret) THEN ErrSecret ELSE ErrNewRequest
  ELSE IF ~URLParses(call[p].op, call[p].id) THEN ErrNewRequest ELSE ErrSecret

\* C9: when http.NewRequest or generateSignature fails, the call returns that
\* error with an empty result and the transport is never invoked for it: every
\* request sent was built and signed, with its headers set.
C9_BuildFailureSendsNothing ==
  \A p \in Procs :
    /\ (pc[p] = "done"
          /\ (~SecretDecodes(client.secret) \/ ~URLParses(call[p].op, call[p].id)))
         => /\ ret[p].err = BuildFailure(p)
            /\ ret[p].val = Empty(call[p].op)
            /\ ~Sent(p)
    /\ Sent(p) => /\ SecretDecodes(client.secret)
                  /\ URLParses(call[p].op, call[p].id)
    /\ pc[p] \in {"do", "decode"} =>
         /\ req[p].headers.sign # NoSig
         /\ req[p].headers.timestamp # NoTimestamp
         /\ req[p].headers.key = client.key
         /\ req[p].headers.passphrase = client.passphrase

\* C9 witness: a call entered at the unexported method returned the signer's
\* error without reaching the transport.
C9_Witness ==
  \E p \in Procs :
    /\ pc[p] = "done"
    /\ call[p].via = "unexported"
    /\ ret[p].err = ErrSecret
    /\ doCount[p] = 0

\* C10: when the transport fails without a response, the call returns the
\* transport's error with an empty result, and decodes and closes nothing.
C10_TransportFailureIsError ==
  \A p \in Procs :
    (pc[p] = "done" /\ Sent(p) /\ ~Answered(p))
      => /\ ret[p].err = ErrTransport
         /\ ret[p].val = Empty(call[p].op)
         /\ closes[p] = 0

\* C10 witness: a GetAccountHistory call returned after its transport call
\* failed.
C10_Witness ==
  \E p \in Procs :
    /\ pc[p] = "done"
    /\ call[p].op = "GetAccountHistory"
    /\ Sent(p)
    /\ ~Answered(p)
    /\ ret[p].err = ErrTransport

=============================================================================
